---- MODULE Spec2Model ----
(***************************************************************************)
(* django-mongom2m: the related manager of a MongoDBManyToManyField, its   *)
(* query set, the encoding of the manager into the host document and the   *)
(* host-level query translation, as a state machine over one host          *)
(* document instance, its stored record and the target collection.         *)
(***************************************************************************)
EXTENDS Integers, Sequences, FiniteSets, TLC

NumTargets == 2
MaxCells == 2
MaxArgs == 2
MaxStored == 2

VARIABLES
    db,        \* target collection: target number -> stored name, or Absent
    embed,     \* the field's embed option (MongoDBManyToManyField(embed=...))
    objects,   \* the bound manager's self.objects: list of {'pk', 'obj'} cells
    stored,    \* the host record's list column as it is in storage
    last,      \* the last operation: its arguments, signals, result
    other      \* a second host instance in memory and the field's default

vars == <<db, embed, objects, stored, last, other>>

----------------------------------------------------------------------------
(* Values.  Every value is a record tagged by k, so that an ObjectId, its  *)
(* string form, a model instance and None are distinct and comparable.     *)

TargetIds == 1..NumTargets
Names == {"a", "b"}
Absent == "absent"

None == [k |-> "None"]
Oid(n) == [k |-> "ObjectId", v |-> n]
Str(n) == [k |-> "str", v |-> n]

\* bson ObjectId(x): x is an ObjectId or the string form of one
ObjectId(x) == IF x.k = "str" THEN Oid(x.v) ELSE x

\* python str(x) of an ObjectId (or of a string)
str(x) == IF x.k = "ObjectId" THEN Str(x.v) ELSE x

\* a model instance of the target type rel.to: fields id and name
TargetFields == <<"id", "name">>
Model(pk, name) == [k |-> "Model", pk |-> pk, name |-> name]

\* dicts are functions from column names to values
Dict(d) == [k |-> "dict", d |-> d]
\* the (<embedded model class>, <kwarg dict>) pair of an EmbeddedModelField;
\* in some djangotoolbox versions the kwargs are a tuple of pairs
Tuple(values) == [k |-> "tuple", values |-> values]
Pairs(d) == [k |-> "pairs", d |-> d]

Cell(pk, obj) == [pk |-> pk, obj |-> obj]

pks(cells) == [i \in DOMAIN cells |-> cells[i].pk]
Range(s) == {s[i] : i \in DOMAIN s}
SeqsUpTo(S, n) == UNION {[1..m -> S] : m \in 0..n}

----------------------------------------------------------------------------
(* The target collection.                                                  *)

\* an identifier that was generated and never saved names no target
Exists(pk) == ObjectId(pk).v \in TargetIds /\ db[ObjectId(pk).v] # Absent

\* rel.to.objects.get(pk=pk): the stored target, its pk a string
\* (django-mongodb-engine); DoesNotExist is None here and callers test Exists
get(pk) ==
    IF Exists(pk) THEN Model(str(ObjectId(pk)), db[ObjectId(pk).v]) ELSE None

----------------------------------------------------------------------------
(* Signals.  m2m_changed.send(...) delivers to the receivers at once; a    *)
(* receiver sees the manager as it is at that moment.                      *)

send(action, pk_set, seen) ==
    [action |-> action, pk_set |-> pk_set, objects |-> seen]

----------------------------------------------------------------------------
(* Encoding the manager for storage (the host's save).                     *)

\* a slip: the identifier alone is stored, whatever the embed option
get_db_prep_value_embedded_instance_id_only(obj) ==
    [obj |-> obj, value |-> Dict([id |-> obj.pk]), raised |-> FALSE]

\* One cell's database value.  With embed, a cell without a loaded object
\* is loaded in place first; that lookup raises DoesNotExist when the
\* target is gone.
get_db_prep_value_embedded_instance(obj) ==
    IF ~embed
    THEN [obj |-> obj, value |-> Dict([id |-> obj.pk]), raised |-> FALSE]
    ELSE IF obj.obj = None /\ ~Exists(obj.pk)
    THEN [obj |-> obj, value |-> None, raised |-> TRUE]
    ELSE LET loaded == IF obj.obj = None THEN Cell(obj.pk, get(obj.pk)) ELSE obj
             embedded_instance == loaded.obj
         IN  [obj |-> loaded,
              value |-> Dict([id |-> ObjectId(embedded_instance.pk),
                              name |-> embedded_instance.name]),
              raised |-> FALSE]

RECURSIVE prep_from(_, _)
prep_from(cells, i) ==
    IF i > Len(cells)
    THEN [objects |-> cells, values |-> <<>>, raised |-> FALSE]
    ELSE LET r == get_db_prep_value_embedded_instance(cells[i]) IN
         IF r.raised
         THEN [objects |-> cells, values |-> <<>>, raised |-> TRUE]
         ELSE LET rest == prep_from([cells EXCEPT ![i] = r.obj], i + 1) IN
              [objects |-> rest.objects,
               values |-> <<r.value>> \o rest.values,
               raised |-> rest.raised]

\* the list stored for the manager; cells are resolved in place, in order,
\* up to the one whose lookup raises
get_db_prep_value(cells) == prep_from(cells, 1)

\* model_instance.save(): the field's pre_save returns the bound manager,
\* get_db_prep_save encodes it, the record is replaced
save(cells) ==
    LET e == get_db_prep_value(cells) IN
    [objects |-> e.objects,
     stored |-> IF e.raised THEN stored ELSE e.values,
     raised |-> IF e.raised THEN "DoesNotExist" ELSE ""]

\* the host saves a call of add/remove/clear/remove_nonexists/reload_from_db
\* makes, each with the number of signals the call has sent before it
host_saves(events, auto_save) ==
    IF auto_save THEN <<[k |-> "save", after |-> Len(events)]>> ELSE <<>>

\* a slip: the host is saved whatever auto_save says
finish_saving(cells, auto_save) == save(cells)

\* a slip: the host is never saved by the call
finish_unsaved(cells, auto_save) ==
    [objects |-> cells, stored |-> stored, raised |-> ""]

\* the end of add/remove/clear/reload_from_db: if auto_save: save()
finish(cells, auto_save) ==
    IF auto_save THEN save(cells)
    ELSE [objects |-> cells, stored |-> stored, raised |-> ""]

----------------------------------------------------------------------------
(* Decoding a stored list.                                                 *)

len(values) == Cardinality(DOMAIN values.d)
\* python "'id' in values": a key of a dict, never an element of a tuple
\* of (key, value) pairs
id_in(values) == values.k = "dict" /\ "id" \in DOMAIN values.d

\* cls(**values): a model instance built from field values
cls(d) == Model(d.id, IF "name" \in DOMAIN d THEN d.name ELSE "")

RECURSIVE to_python_embedded_instance(_)
to_python_embedded_instance(embedded_instance) ==
    IF embedded_instance.k = "ObjectId"
    THEN Cell(embedded_instance, None)
    ELSE IF embedded_instance.k = "str"
    THEN Cell(ObjectId(embedded_instance), None)
    ELSE IF embedded_instance.k = "tuple"
    THEN LET values == embedded_instance.values IN
         IF len(values) = 1 /\ id_in(values) /\ Len(TargetFields) > 1
         THEN to_python_embedded_instance(Dict([id |-> ObjectId(values.d.id)]))
         ELSE LET instance == cls(values.d) IN
              Cell(ObjectId(instance.pk), instance)
    ELSE IF embed
    THEN IF embedded_instance.k = "dict"
         THEN LET data == [c \in DOMAIN embedded_instance.d \cap Range(TargetFields)
                               |-> embedded_instance.d[c]] IN
              IF Cardinality(DOMAIN data) <= 1
              THEN Cell(ObjectId(embedded_instance.d.id), None)
              ELSE LET obj == cls(data) IN
                   Cell(ObjectId(obj.pk), Model(str(obj.pk), obj.name))
         ELSE Cell(ObjectId(embedded_instance.pk),
                   Model(str(embedded_instance.pk), embedded_instance.name))
    ELSE IF embedded_instance.k = "dict"
         THEN Cell(ObjectId(embedded_instance.d.id), None)
         ELSE Cell(ObjectId(embedded_instance.pk), None)

to_python(values) ==
    [i \in DOMAIN values |-> to_python_embedded_instance(values[i])]

\* what the backend hands to the field for a stored element: a stored
\* sub-document comes as a dict or, through an EmbeddedModelField, as the
\* construction tuple; identifiers come as they are
Forms == {"dict", "tuple", "pairs"}
\* the list's item field is an EmbeddedModelField only with embed
FormsOf(embedded) == IF embedded THEN Forms ELSE {"dict"}
deliver(e, form) ==
    IF e.k # "dict" \/ form = "dict" THEN e
    ELSE IF form = "tuple" THEN Tuple(e)
    ELSE Tuple(Pairs(e.d))
delivered(values, form) == [i \in DOMAIN values |-> deliver(values[i], form)]

----------------------------------------------------------------------------
(* The related manager's operations on self.objects.  Each gives the cell  *)
(* list after the commit and the signals sent, in order.                   *)

\* a slip: the argument is taken as the pk without ObjectId(...)
add_cell_unconverted(obj) ==
    IF obj.k \in {"ObjectId", "str"} THEN Cell(obj, None)
    ELSE Cell(obj.pk, obj)

\* the cell add() builds for one argument: an ObjectId or its string, or a
\* model instance
add_cell(obj) ==
    IF obj.k \in {"ObjectId", "str"}
    THEN Cell(ObjectId(obj), None)
    ELSE Cell(ObjectId(obj.pk), obj)

\* add_objs: the arguments whose pk is not in self.objects
add_objs_of(self_objects, objs) ==
    SelectSeq([i \in DOMAIN objs |-> add_cell(objs[i])],
              LAMBDA c : c.pk \notin Range(pks(self_objects)))

\* a slip: the new cells are put in front of the held ones
add_in_front(self_objects, objs) ==
    LET add_objs == add_objs_of(self_objects, objs)
        add_obj_ids == [i \in DOMAIN add_objs |-> str(add_objs[i].pk)]
        committed == add_objs \o self_objects
    IN  [objects |-> committed,
         events |-> << send("pre_add", add_obj_ids, self_objects),
                       send("post_add", add_obj_ids, committed) >>]

add(self_objects, objs) ==
    LET add_objs == add_objs_of(self_objects, objs)
        add_obj_ids == [i \in DOMAIN add_objs |-> str(add_objs[i].pk)]
        committed == self_objects \o add_objs
    IN  [objects |-> committed,
         events |-> << send("pre_add", add_obj_ids, self_objects),
                       send("post_add", add_obj_ids, committed) >>]

\* a slip: the filter keeps the removed cells instead of the others
remove_by_id_strings_inverted(self_objects, removed_obj_ids) ==
    LET committed == SelectSeq(self_objects,
                        LAMBDA obj : str(obj.pk) \in Range(removed_obj_ids))
    IN  [objects |-> committed,
         events |-> << send("pre_remove", removed_obj_ids, self_objects),
                       send("post_remove", removed_obj_ids, committed) >>]

remove_by_id_strings(self_objects, removed_obj_ids) ==
    LET committed == SelectSeq(self_objects,
                        LAMBDA obj : str(obj.pk) \notin Range(removed_obj_ids))
    IN  [objects |-> committed,
         events |-> << send("pre_remove", removed_obj_ids, self_objects),
                       send("post_remove", removed_obj_ids, committed) >>]

\* a slip: the payload is every requested identifier, held or not
remove_payload_requested(self_objects, objs) ==
    LET removed_obj_ids ==
            [i \in DOMAIN objs |->
                str(ObjectId(IF objs[i].k \in {"ObjectId", "str"}
                             THEN objs[i] ELSE objs[i].pk))]
    IN  remove_by_id_strings(self_objects, removed_obj_ids)

remove(self_objects, objs) ==
    LET obj_ids == {ObjectId(IF objs[i].k \in {"ObjectId", "str"}
                             THEN objs[i] ELSE objs[i].pk) : i \in DOMAIN objs}
        held == SelectSeq(self_objects, LAMBDA obj : obj.pk \in obj_ids)
        removed_obj_ids == [i \in DOMAIN held |-> str(held[i].pk)]
    IN  remove_by_id_strings(self_objects, removed_obj_ids)

\* a slip: post_clear is sent before the list is emptied
clear_post_before_commit(self_objects) ==
    LET removed_obj_ids == [i \in DOMAIN self_objects |-> str(self_objects[i].pk)]
    IN  [objects |-> <<>>,
         events |-> << send("pre_clear", removed_obj_ids, self_objects),
                       send("post_clear", removed_obj_ids, self_objects) >>]

clear(self_objects) ==
    LET removed_obj_ids == [i \in DOMAIN self_objects |-> str(self_objects[i].pk)]
    IN  [objects |-> <<>>,
         events |-> << send("pre_clear", removed_obj_ids, self_objects),
                       send("post_clear", removed_obj_ids, <<>>) >>]

----------------------------------------------------------------------------
(* The query set returned by all() and objs(), in plain mode.              *)

\* a slip: use_cached is not looked at
MongoDBM2MQuerySet_keeps_cached(self_objects, use_cached) == self_objects

\* __init__: the list is copied, the cells are not; without use_cached
\* new cells without objects are made
MongoDBM2MQuerySet(self_objects, use_cached) ==
    IF use_cached THEN self_objects
    ELSE [i \in DOMAIN self_objects |-> Cell(self_objects[i].pk, None)]

\* a slip: the target is looked up whether or not the cell has an object
get_obj_reloading(obj) ==
    LET cell == Cell(obj.pk, get(obj.pk))
    IN  [obj |-> cell, ret |-> cell.obj]

\* _get_obj: a cell without an object is looked up and, when found, filled
\* in place; the cell's object (None when not found) is returned
get_obj(obj) ==
    LET cell == IF obj.obj = None /\ Exists(obj.pk)
                THEN Cell(obj.pk, get(obj.pk)) ELSE obj
    IN  [obj |-> cell, ret |-> cell.obj]

\* a slip: the None of a cell that does not resolve is yielded too
iter_unskipped(qs_objects) ==
    LET got == [i \in DOMAIN qs_objects |-> get_obj(qs_objects[i])]
    IN  [objects |-> [i \in DOMAIN got |-> got[i].obj],
         out |-> [i \in DOMAIN got |-> got[i].ret]]

\* __iter__: the objects of the cells in order, None skipped
iter(qs_objects) ==
    LET got == [i \in DOMAIN qs_objects |-> get_obj(qs_objects[i])]
        rets == [i \in DOMAIN got |-> got[i].ret]
    IN  [objects |-> [i \in DOMAIN got |-> got[i].obj],
         out |-> SelectSeq(rets, LAMBDA o : o # None)]

\* a slip: the objects are taken from all(), the cached copies
reload_from_db_cached(self_objects) ==
    LET all_objects_from_db == iter(MongoDBM2MQuerySet(self_objects, TRUE)).out
        c == clear(self_objects)
        a == add(c.objects, all_objects_from_db)
    IN  [objects |-> a.objects, events |-> c.events \o a.events]

\* a slip: the objects are added before the list is cleared
reload_from_db_add_first(self_objects) ==
    LET all_objects_from_db == iter(MongoDBM2MQuerySet(self_objects, FALSE)).out
        a == add(self_objects, all_objects_from_db)
        c == clear(a.objects)
    IN  [objects |-> c.objects, events |-> a.events \o c.events]

\* reload_from_db without its trailing save
reload_from_db(self_objects) ==
    LET all_objects_from_db == iter(MongoDBM2MQuerySet(self_objects, FALSE)).out
        c == clear(self_objects)
        a == add(c.objects, all_objects_from_db)
    IN  [objects |-> a.objects, events |-> c.events \o a.events]

----------------------------------------------------------------------------
(* The state machine.                                                      *)

\* the target instance a caller holds: as read from the collection, or
\* the instance of a target that has been deleted since
Instance(t) == Model(Str(t), IF db[t] # Absent THEN db[t] ELSE "a")

\* what callers pass to add and remove: ObjectIds, their strings, or
\* target instances
Items ==
    {Oid(t) : t \in TargetIds} \cup {Str(t) : t \in TargetIds}
        \cup {Instance(t) : t \in TargetIds}

Call(op, args, auto_save, before, events, raised, out) ==
    [op |-> op, args |-> args, auto_save |-> auto_save, before |-> before,
     events |-> events, raised |-> raised, out |-> out]

\* no call is being observed
Idle == Call("idle", <<>>, FALSE, <<>>, <<>>, "", <<>>)

\* A manager as a host instance's __dict__ holds it: its cells, whether it
\* is bound to the instance (model_instance), and whether its list is a
\* list of its own or the very list of the field's default manager.
Manager(cells, bound, list) == [objects |-> cells, bound |-> bound, list |-> list]

\* field.default, the unbound manager made in contribute_after_resolving,
\* and no second instance yet
NoOther ==
    [default |-> <<>>, doc |-> "none", manager |-> Manager(<<>>, FALSE, "own")]

\* the host document exists with an empty relationship list; every target
\* exists
Init ==
    /\ db = [t \in TargetIds |-> "a"]
    /\ embed \in BOOLEAN
    /\ objects = <<>>
    /\ stored = <<>>
    /\ last = Idle
    /\ other = NoOther

Add(objs, auto_save) ==
    /\ last = Idle
    /\ Len(objects) + Len(objs) <= MaxCells
    /\ LET r == add(objects, objs)
           f == finish(r.objects, auto_save)
       IN  /\ objects' = f.objects
           /\ stored' = f.stored
           /\ last' = Call("add", objs, auto_save, objects, r.events,
                           f.raised, host_saves(r.events, auto_save))
    /\ UNCHANGED <<other, db, embed>>

Remove(objs, auto_save) ==
    /\ last = Idle
    /\ LET r == remove(objects, objs)
           f == finish(r.objects, auto_save)
       IN  /\ objects' = f.objects
           /\ stored' = f.stored
           /\ last' = Call("remove", objs, auto_save, objects, r.events,
                           f.raised, host_saves(r.events, auto_save))
    /\ UNCHANGED <<other, db, embed>>

Clear(auto_save) ==
    /\ last = Idle
    /\ LET r == clear(objects)
           f == finish(r.objects, auto_save)
       IN  /\ objects' = f.objects
           /\ stored' = f.stored
           /\ last' = Call("clear", <<>>, auto_save, objects, r.events,
                           f.raised, host_saves(r.events, auto_save))
    /\ UNCHANGED <<other, db, embed>>

ReloadFromDb(auto_save) ==
    /\ last = Idle
    /\ LET r == reload_from_db(objects)
           f == finish(r.objects, auto_save)
       IN  /\ objects' = f.objects
           /\ stored' = f.stored
           /\ last' = Call("reload_from_db", <<>>, auto_save, objects, r.events,
                           f.raised, host_saves(r.events, auto_save))
    /\ UNCHANGED <<other, db, embed>>

\* list(manager.all(use_cached=...)): with use_cached the query set holds
\* the manager's own cells, so a lookup it makes fills the manager's cell
All(use_cached) ==
    /\ last = Idle
    /\ LET it == iter(MongoDBM2MQuerySet(objects, use_cached))
       IN  /\ objects' = IF use_cached THEN it.objects ELSE objects
           /\ last' = Call(IF use_cached THEN "all" ELSE "all_fresh", <<>>, FALSE,
                           objects, <<>>, "", it.out)
    /\ UNCHANGED <<other, db, embed, stored>>

\* list(manager.objs())
Objs ==
    /\ last = Idle
    /\ LET it == iter(MongoDBM2MQuerySet(objects, FALSE))
       IN  last' = Call("objs", <<>>, FALSE, objects, <<>>, "", it.out)
    /\ UNCHANGED <<other, db, embed, objects, stored>>

\* host.save()
Save ==
    /\ last = Idle
    /\ LET f == save(objects)
       IN  /\ objects' = f.objects
           /\ stored' = f.stored
           /\ last' = Call("save", <<>>, TRUE, objects, <<>>, f.raised, <<>>)
    /\ UNCHANGED <<other, db, embed>>

\* Host.objects.get(pk=host.pk): a fresh instance whose manager is decoded
\* from the stored list
Load(form) ==
    /\ last = Idle
    /\ objects' = to_python(delivered(stored, form))
    /\ last' = Call("load", <<form>>, FALSE, objects, <<>>, "", <<>>)
    /\ UNCHANGED <<other, db, embed, stored>>

\* what a predecessor of the field on the same collection (a ListField of
\* foreign keys or of embedded models) stored in the host's list
LegacyElements ==
    {Oid(t) : t \in TargetIds} \cup {Str(t) : t \in TargetIds}
        \cup {Dict([id |-> Oid(t)]) : t \in TargetIds}
        \cup {Dict([id |-> Oid(t), name |-> n]) : t \in TargetIds, n \in Names}

\* host.field = values (the descriptor's __set__): the field's to_python
\* decodes a raw list, whatever the shapes of its elements
Shapes ==
    LegacyElements
        \cup {Tuple(Dict([id |-> i])) : i \in {Oid(t) : t \in TargetIds}
                                               \cup {Str(t) : t \in TargetIds}}
        \cup {Tuple(Pairs([id |-> Oid(t)])) : t \in TargetIds}
        \cup {Tuple(Dict([id |-> Oid(t), name |-> n])) : t \in TargetIds, n \in Names}
        \cup {Tuple(Pairs([id |-> Oid(t), name |-> n])) : t \in TargetIds, n \in Names}

Set(values) ==
    /\ last = Idle
    /\ objects' = to_python(values)
    /\ last' = Call("set", values, FALSE, objects, <<>>, "", <<>>)
    /\ UNCHANGED <<other, db, embed, stored>>

\* another process deletes a target document
DeleteTarget(t) ==
    /\ last = Idle
    /\ db[t] # Absent
    /\ db' = [db EXCEPT ![t] = Absent]
    /\ UNCHANGED <<other, embed, objects, stored, last>>

\* another process saves a target document (new, again, or renamed)
SaveTarget(t, n) ==
    /\ last = Idle
    /\ db[t] # n
    /\ db' = [db EXCEPT ![t] = n]
    /\ UNCHANGED <<other, embed, objects, stored, last>>

\* the call has returned and its observer has looked at it
Return ==
    /\ last # Idle
    /\ last' = Idle
    /\ UNCHANGED <<other, db, embed, objects, stored>>

Next ==
    \/ Return
    \/ last = Idle /\ \E objs \in SeqsUpTo(Items, MaxArgs), auto_save \in BOOLEAN :
           Add(objs, auto_save)
    \/ last = Idle /\ \E objs \in SeqsUpTo(Items, MaxArgs), auto_save \in BOOLEAN :
           Remove(objs, auto_save)
    \/ last = Idle /\ \E auto_save \in BOOLEAN : Clear(auto_save)
    \/ last = Idle /\ \E auto_save \in BOOLEAN : ReloadFromDb(auto_save)
    \/ last = Idle /\ \E use_cached \in BOOLEAN : All(use_cached)
    \/ last = Idle /\ Objs
    \/ last = Idle /\ Save
    \/ last = Idle /\ \E form \in FormsOf(embed) : Load(form)
    \/ last = Idle /\ \E t \in TargetIds : DeleteTarget(t)
    \/ last = Idle /\ \E t \in TargetIds, n \in Names : SaveTarget(t, n)

Spec == Init /\ [][Next]_vars

----------------------------------------------------------------------------
(* Host-level queries on the field: Host.field.filter / exclude / get.     *)

MaxChildren == 2

\* a (field, value) child of a Q, and the A() it is replaced by
Leaf(f) == [k |-> "leaf", f |-> f]
A(f) == [k |-> "A", f |-> f]
Q(connector, negated, children) ==
    [k |-> "Q", connector |-> connector, negated |-> negated,
     children |-> children]

\* combine_A: pk is stored as id
combine_A(field) == A(IF field \in {"pk", "id"} THEN "id" ELSE field)

\* replace_Q: the children are rewritten in place, in order.  A child Q is
\* rewritten by the recursive call, whose result is not looked at; a
\* (field, value) child is taken out, checked and put back as an A().
\* Gives the status returned and the children as they are left.
RECURSIVE replace_Q(_, _)
replace_Q(q, allowed_fields) ==
    LET RECURSIVE loop(_, _)
        loop(children, i) ==
            IF i > Len(children)
            THEN [status |-> TRUE, children |-> children]
            ELSE LET child == children[i] IN
                 IF child.k = "Q"
                 THEN loop([children EXCEPT ![i] =
                              [child EXCEPT !.children =
                                  replace_Q(child, allowed_fields).children]],
                           i + 1)
                 ELSE IF allowed_fields # {} /\ child.f \notin allowed_fields
                 THEN [status |-> FALSE,
                       children |-> SubSeq(children, 1, i - 1)
                                      \o SubSeq(children, i + 1, Len(children))]
                 ELSE loop([children EXCEPT ![i] = combine_A(child.f)], i + 1)
    IN  loop(q.children, 1)

\* _filter_or_exclude: the positional Qs, then the keyword arguments
RECURSIVE updated_args_from(_, _, _)
updated_args_from(args, i, embedded) ==
    IF i > Len(args)
    THEN [raised |-> FALSE, args |-> <<>>]
    ELSE LET r == replace_Q(args[i], IF ~embedded THEN {"pk"} ELSE {}) IN
         IF ~r.status
         THEN [raised |-> TRUE, args |-> <<>>]
         ELSE LET rest == updated_args_from(args, i + 1, embedded) IN
              [raised |-> rest.raised,
               args |-> <<[args[i] EXCEPT !.children = r.children]>> \o rest.args]

filter_or_exclude(args, kwargs, embedded) ==
    LET ua == updated_args_from(args, 1, embedded) IN
    IF ua.raised \/ (~embedded /\ \E field \in kwargs : field # "pk")
    THEN [raised |-> "MongoDBM2MQueryError", ran |-> FALSE, query_args |-> <<>>]
    ELSE [raised |-> "", ran |-> TRUE,
          query_args |-> ua.args \o [i \in 1..Cardinality(kwargs) |-> A("kwargs")]]

\* the attributes a predicate can name
Attributes == {"pk", "name"}
Leaves == {Leaf(f) : f \in Attributes}
QsOver(children) ==
    {Q(c, n, ch) : c \in {"AND", "OR"}, n \in BOOLEAN,
                   ch \in SeqsUpTo(children, MaxChildren) \ {<<>>}}
\* Q trees: (field, value) children, and Qs of them as children
Trees == QsOver(Leaves \cup QsOver(Leaves))

\* filter, exclude and get all go through _filter_or_exclude; what the
\* host query that is run returns (the rows, get's DoesNotExist or
\* MultipleObjectsReturned) is the backend's and is not modelled
HostQuery(method, args, kwargs) ==
    /\ last = Idle
    /\ LET r == filter_or_exclude(args, kwargs, embed)
       IN  last' = Call(method, args, FALSE, <<>>, <<>>, r.raised,
                        <<[kwargs |-> kwargs, ran |-> r.ran,
                           query_args |-> r.query_args]>>)
    /\ UNCHANGED <<other, db, embed, objects, stored>>

NextQuery ==
    \/ Return
    \/ last = Idle /\ \E method \in {"filter", "exclude", "get"},
           args \in SeqsUpTo(Trees, 1), kwargs \in SUBSET Attributes :
           HostQuery(method, args, kwargs)

SpecQuery == Init /\ [][NextQuery]_vars

\* decoding alone: raw lists of every shape are assigned to the field of a
\* host and read back
NextDecode ==
    \/ Return
    \/ last = Idle /\ \E values \in SeqsUpTo(Shapes, MaxStored) : Set(values)
    \/ last = Idle /\ \E use_cached \in BOOLEAN : All(use_cached)

SpecDecode == Init /\ [][NextDecode]_vars

----------------------------------------------------------------------------
(* The host collection, the reverse accessor and the 'through' model that  *)
(* stands in for a relationship table.  Host 1 is the host document whose  *)
(* instance is under observation; the other hosts are stored documents     *)
(* that hold target 1 and are not touched.                                 *)

NumHosts == 2

HostIds == 1..NumHosts
HostOid(h) == Oid(NumTargets + h)
\* a host instance; its pk is a string (django-mongodb-engine)
Host(h) == [k |-> "Host", pk |-> str(HostOid(h))]

\* the list column of a host document in storage
StoredOf(h) ==
    IF h = 1 THEN stored
    ELSE IF embed THEN << Dict([id |-> Oid(1), name |-> "a"]) >>
    ELSE << Dict([id |-> Oid(1)]) >>

\* raw_query({'<column>.<pk column>': pk}): the hosts with a sub-document
\* of that id in the list, in collection order
raw_query(pk) ==
    SelectSeq([h \in HostIds |-> h],
              LAMBDA h : \E i \in DOMAIN StoredOf(h) :
                  /\ StoredOf(h)[i].k = "dict"
                  /\ "id" \in DOMAIN StoredOf(h)[i].d
                  /\ StoredOf(h)[i].d.id = pk)

\* a slip: the instance's pk string is looked up as it is
reverse_all_unconverted(rel_field) ==
    LET found == raw_query(rel_field.pk)
    IN  [i \in DOMAIN found |-> Host(found[i])]

\* MongoDBM2MReverseManager.all
reverse_all(rel_field) ==
    LET found == raw_query(ObjectId(rel_field.pk))
    IN  [i \in DOMAIN found |-> Host(found[i])]

\* "%s$%s$%s": the magic key of a relationship row
Key(a, direction, b) == [k |-> "key", a |-> a, direction |-> direction, b |-> b]
\* an instance of the through model
Through(pk, model_instance, to_instance) ==
    [k |-> "Through", pk |-> pk, host |-> model_instance, target |-> to_instance]

\* _get_obj of a query set that appears as the relationship model: the
\* cell is resolved as in plain mode and wrapped, found or not
get_obj_wrapped(obj, rel_model_instance, rel_to_instance) ==
    LET g == get_obj(obj) IN
    [obj |-> g.obj,
     ret |-> IF rel_model_instance # None
             THEN Through(Key(rel_model_instance.pk, "f", str(obj.pk)),
                          rel_model_instance, g.obj.obj)
             ELSE Through(Key(rel_to_instance.pk, "r", str(obj.pk)),
                          g.obj.obj, rel_to_instance)]

\* __iter__ of such a query set: a wrapper is never None, so every cell
\* yields one
iter_wrapped(qs_objects, rel_model_instance, rel_to_instance) ==
    LET got == [i \in DOMAIN qs_objects |->
                   get_obj_wrapped(qs_objects[i], rel_model_instance, rel_to_instance)]
    IN  [objects |-> [i \in DOMAIN got |-> got[i].obj],
         out |-> [i \in DOMAIN got |-> got[i].ret]]

\* _relationship_query_set: the cells of the reverse query set
relationship_query_set(to_instance) ==
    LET hosts == reverse_all(to_instance)
    IN  [i \in DOMAIN hosts |-> Cell(ObjectId(hosts[i].pk), hosts[i])]

\* MongoDBM2MQuerySet.get(pk=...) of a query set that appears as the
\* relationship model: the first cell with that pk, wrapped, or None
qs_get(qs_objects, pk, rel_model_instance, rel_to_instance) ==
    LET hits == SelectSeq(qs_objects, LAMBDA obj : ObjectId(pk) = obj.pk)
    IN  IF hits = <<>> THEN None
        ELSE get_obj_wrapped(hits[1], rel_model_instance, rel_to_instance).ret

\* a slip: the two ids of a forward key are taken in the other order
through_get_swapped(pk, form) ==
    IF pk.a \notin {Host(h).pk : h \in HostIds}
    THEN [raised |-> "DoesNotExist", ret |-> None]
    ELSE LET h == CHOOSE x \in HostIds : Host(x).pk = pk.a
         IN  [raised |-> "",
              ret |-> qs_get(to_python(delivered(StoredOf(h), form)), pk.a,
                             Host(h), None)]

\* ThroughQuerySet.get(pk='<id>$<direction>$<id>').  The host and, in
\* reverse, the target are fetched from storage (DoesNotExist when they
\* are not there); form is the form in which the backend delivers the
\* host's list.
through_get(pk, form) ==
    IF pk.direction = "r"
    THEN IF ~Exists(pk.a)
         THEN [raised |-> "DoesNotExist", ret |-> None]
         ELSE [raised |-> "",
               ret |-> qs_get(relationship_query_set(get(pk.a)), pk.b,
                              None, get(pk.a))]
    ELSE IF pk.a \notin {Host(h).pk : h \in HostIds}
         THEN [raised |-> "DoesNotExist", ret |-> None]
         ELSE LET h == CHOOSE x \in HostIds : Host(x).pk = pk.a
              IN  [raised |-> "",
                   ret |-> qs_get(to_python(delivered(StoredOf(h), form)), pk.b,
                                  Host(h), None)]

\* obj.save() after the manager's own save: skipped when that one raised
save_again(f) ==
    IF f.raised # "" THEN f ELSE save(f.objects)

\* Through.save: manager.add(target), whose auto-save saves the host, then
\* obj.save(); a save that raises ends the call
through_save(self_objects, to_instance) ==
    LET r == add(self_objects, <<to_instance>>)
        g == CHOOSE g \in {save_again(save(r.objects))} : TRUE
    IN  [objects |-> g.objects, stored |-> g.stored, raised |-> g.raised,
         events |-> r.events]

\* Through.delete: manager.remove(target), then obj.save()
through_delete(self_objects, to_instance) ==
    LET r == remove(self_objects, <<to_instance>>)
        g == CHOOSE g \in {save_again(save(r.objects))} : TRUE
    IN  [objects |-> g.objects, stored |-> g.stored, raised |-> g.raised,
         events |-> r.events]

\* a keyword predicate on a target attribute, and the pk strings of the
\* stored targets among ids that satisfy it:
\* rel.to.objects.filter(pk__in=ids).filter(**kwargs).values_list('pk', flat=True)
Kw(f, v) == [k |-> "kw", f |-> f, v |-> v]
values_list_pk(ids, kw) ==
    {Str(t) : t \in {x \in TargetIds : Oid(x) \in ids /\ db[x] # Absent
                                        /\ db[x] = kw.v}}

\* a slip: the predicate is evaluated on the cached copies
qs_filter_on_cached(qs_objects, use_cached, kw) ==
    LET kept == SelectSeq(qs_objects,
                    LAMBDA obj : obj.obj # None /\ obj.obj.name = kw.v)
    IN  [receiver |-> kept, result |-> kept]

\* MongoDBM2MQuerySet.filter: self.objects is narrowed to the cells whose
\* pk string the target collection returns, and a clone is returned
qs_filter(qs_objects, use_cached, kw) ==
    LET found == values_list_pk(Range(pks(qs_objects)), kw)
        kept == SelectSeq(qs_objects, LAMBDA obj : str(obj.pk) \in found)
    IN  [receiver |-> kept, result |-> MongoDBM2MQuerySet(kept, use_cached)]

\* _clone, as all() and values_list() call it
qs_clone(qs_objects, use_cached) ==
    [receiver |-> qs_objects,
     result |-> MongoDBM2MQuerySet(qs_objects, use_cached)]

\* list(Through.objects.filter(<host>=host)), host the observed instance
ThroughFilter ==
    /\ last = Idle
    /\ LET it == iter_wrapped(MongoDBM2MQuerySet(objects, TRUE), Host(1), None)
       IN  /\ objects' = it.objects
           /\ last' = Call("through_filter", <<Host(1)>>, FALSE, objects, <<>>,
                           "", it.out)
    /\ UNCHANGED <<other, db, embed, stored>>

\* list(Through.objects.filter(<target>=to_instance))
ThroughFilterReverse(t) ==
    /\ last = Idle
    /\ LET to_instance == Instance(t)
           qs == relationship_query_set(to_instance)
           it == iter_wrapped(qs, None, to_instance)
       IN  last' = Call("through_filter", <<to_instance>>, FALSE, qs, <<>>,
                        "", it.out)
    /\ UNCHANGED <<other, db, embed, objects, stored>>

\* the magic keys asked for: every host and one that is not stored, every
\* target id
Keys ==
    {Key(str(HostOid(h)), "f", Str(t)) : h \in 1..(NumHosts + 1), t \in TargetIds}
        \cup {Key(Str(t), "r", str(HostOid(h))) : h \in HostIds, t \in TargetIds}

\* Through.objects.get(pk=<magic key>)
ThroughGet(pk, form) ==
    /\ last = Idle
    /\ LET r == through_get(pk, form)
       IN  last' = Call("through_get", <<pk>>, FALSE, objects, <<>>, r.raised,
                        <<r.ret>>)
    /\ UNCHANGED <<other, db, embed, objects, stored>>

\* Through(<host>=host, <target>=to_instance).save()
ThroughSave(t) ==
    /\ last = Idle
    /\ Len(add(objects, <<Instance(t)>>).objects) <= MaxCells
    /\ \E r \in {through_save(objects, Instance(t))} :
           /\ objects' = r.objects
           /\ stored' = r.stored
           /\ last' = Call("through_save", <<Instance(t)>>, TRUE, objects,
                           r.events, r.raised, <<>>)
    /\ UNCHANGED <<other, db, embed>>

\* Through(<host>=host, <target>=to_instance).delete()
ThroughDelete(t) ==
    /\ last = Idle
    /\ \E r \in {through_delete(objects, Instance(t))} :
           /\ objects' = r.objects
           /\ stored' = r.stored
           /\ last' = Call("through_delete", <<Instance(t)>>, TRUE, objects,
                           r.events, r.raised, <<>>)
    /\ UNCHANGED <<other, db, embed>>

\* list(to_instance.<related_name>.all())
ReverseAll(t) ==
    /\ last = Idle
    /\ last' = Call("reverse_all", <<Instance(t)>>, FALSE, objects, <<>>, "",
                    reverse_all(Instance(t)))
    /\ UNCHANGED <<other, db, embed, objects, stored>>

\* q = manager.all(use_cached=...); q2 = q.filter(name=...): the cells of
\* q before the call, of q after it, and of q2
QsFilter(use_cached, kw) ==
    /\ last = Idle
    /\ LET q == MongoDBM2MQuerySet(objects, use_cached)
           r == qs_filter(q, use_cached, kw)
       IN  last' = Call("qs_filter", <<kw>>, FALSE, q, <<>>, "",
                        <<r.receiver, r.result>>)
    /\ UNCHANGED <<other, db, embed, objects, stored>>

\* q2 = q.all() or q.values_list(...)
QsClone(method, use_cached) ==
    /\ last = Idle
    /\ LET q == MongoDBM2MQuerySet(objects, use_cached)
           r == qs_clone(q, use_cached)
       IN  last' = Call(method, <<>>, FALSE, q, <<>>, "",
                        <<r.receiver, r.result>>)
    /\ UNCHANGED <<other, db, embed, objects, stored>>

NextAdmin ==
    \/ Next
    \/ last = Idle /\ ThroughFilter
    \/ last = Idle /\ \E t \in TargetIds : ThroughFilterReverse(t)
    \/ last = Idle /\ \E pk \in Keys, form \in FormsOf(embed) : ThroughGet(pk, form)
    \/ last = Idle /\ \E t \in TargetIds : ThroughSave(t)
    \/ last = Idle /\ \E t \in TargetIds : ThroughDelete(t)
    \/ last = Idle /\ \E t \in TargetIds : ReverseAll(t)
    \/ last = Idle /\ \E use_cached \in BOOLEAN, n \in Names :
           QsFilter(use_cached, Kw("name", n))
    \/ last = Idle /\ \E method \in {"qs_all", "qs_values_list"},
           use_cached \in BOOLEAN : QsClone(method, use_cached)

SpecAdmin == Init /\ [][NextAdmin]_vars

\* ObjectId(None): a new identifier, unlike every identifier in use
generate(used) ==
    LET first == NumTargets + NumHosts + 1
    IN  Oid(CHOOSE n \in first..(first + Cardinality(used)) :
               /\ Oid(n) \notin used
               /\ \A m \in first..(n - 1) : Oid(m) \in used)

\* create(**kwargs): obj = self.rel.to(**kwargs) is added as it is, never
\* saved, so obj.pk is None and add's ObjectId(obj.pk) is a new identifier
create(self_objects, name) ==
    LET obj == Model(None, name)
        pk == generate(Range(pks(self_objects)))
        add_obj_ids == <<str(pk)>>
        committed == self_objects \o <<Cell(pk, obj)>>
    IN  [objects |-> committed,
         events |-> << send("pre_add", add_obj_ids, self_objects),
                       send("post_add", add_obj_ids, committed) >>,
         ret |-> obj]

\* a slip: a document is looked for among the cached objects
contains_cached(self_objects, obj) ==
    IF obj.k = "Model"
    THEN \E i \in DOMAIN self_objects : self_objects[i].obj = obj
    ELSE ObjectId(obj) \in Range(pks(self_objects))

\* __contains__: obj in manager, by ObjectId(obj.pk) for a document and by
\* ObjectId(obj) for an identifier or its string
contains(self_objects, obj) ==
    LET id == IF obj.k # "Model" THEN ObjectId(obj)
              ELSE IF obj.pk = None THEN generate(Range(pks(self_objects)))
              ELSE ObjectId(obj.pk)
    IN  id \in Range(pks(self_objects))

Bool(b) == [k |-> "bool", v |-> b]

\* d = manager.create(name=...), then d in manager
Create(name, auto_save) ==
    /\ last = Idle
    /\ Len(objects) < MaxCells
    /\ LET r == create(objects, name)
           f == finish(r.objects, auto_save)
       IN  /\ objects' = f.objects
           /\ stored' = f.stored
           /\ last' = Call("create", <<Kw("name", name)>>, auto_save, objects,
                           r.events, f.raised,
                           <<r.ret, Bool(contains(f.objects, r.ret))>>)
    /\ UNCHANGED <<other, db, embed>>

\* the manager's cells alone: raw lists of every shape are assigned, targets
\* are created through the manager, and the manager is changed and read
\* without saving the host
NextCells ==
    \/ Return
    \/ last = Idle /\ \E values \in SeqsUpTo(Shapes, MaxStored) : Set(values)
    \/ last = Idle /\ \E objs \in SeqsUpTo(Items, MaxArgs) : Add(objs, FALSE)
    \/ last = Idle /\ \E objs \in SeqsUpTo(Items, MaxArgs) : Remove(objs, FALSE)
    \/ last = Idle /\ Clear(FALSE)
    \/ last = Idle /\ ReloadFromDb(FALSE)
    \/ last = Idle /\ \E use_cached \in BOOLEAN : All(use_cached)
    \/ last = Idle /\ \E t \in TargetIds : DeleteTarget(t)
    \/ last = Idle /\ \E name \in Names : Create(name, FALSE)

SpecCells == Init /\ [][NextCells]_vars

----------------------------------------------------------------------------
(* Repairing dangling references: remove_nonexists.                        *)

\* get_exists_ids: one {'_id': identifier} document for each held
\* identifier that the target collection has now
get_exists_ids(self_objects) ==
    LET held == SelectSeq(pks(self_objects), Exists)
    IN  [i \in DOMAIN held |-> Dict([_id |-> held[i]])]

\* a slip: the "not" of the test is lost, the existing ones are removed
remove_nonexists_kept(self_objects) ==
    LET docs == get_exists_ids(self_objects)
        exists_ids == [i \in DOMAIN docs |-> docs[i].d._id]
        gone == SelectSeq(self_objects, LAMBDA obj : obj.pk \in Range(exists_ids))
        removed_obj_ids == [i \in DOMAIN gone |-> str(gone[i].pk)]
    IN  remove_by_id_strings(self_objects, removed_obj_ids)

\* remove_nonexists without its trailing save
remove_nonexists(self_objects) ==
    LET docs == get_exists_ids(self_objects)
        exists_ids == [i \in DOMAIN docs |-> docs[i].d._id]
        gone == SelectSeq(self_objects, LAMBDA obj : obj.pk \notin Range(exists_ids))
        removed_obj_ids == [i \in DOMAIN gone |-> str(gone[i].pk)]
    IN  remove_by_id_strings(self_objects, removed_obj_ids)

RemoveNonexists(auto_save) ==
    /\ last = Idle
    /\ \E r \in {remove_nonexists(objects)} :
         \E f \in {finish(r.objects, auto_save)} :
           /\ objects' = f.objects
           /\ stored' = f.stored
           /\ last' = Call("remove_nonexists", <<>>, auto_save, objects, r.events,
                           f.raised, host_saves(r.events, auto_save))
    /\ UNCHANGED <<other, db, embed>>

NextRepair ==
    \/ Next
    \/ last = Idle /\ \E auto_save \in BOOLEAN : RemoveNonexists(auto_save)

SpecRepair == Init /\ [][NextRepair]_vars

----------------------------------------------------------------------------
(* Reading the manager and its query set: membership, iteration, count,    *)
(* indexing.                                                               *)

Num(n) == [k |-> "int", v |-> n]

\* MongoDBM2MRelatedManager.__iter__ from cell i on: a cell without an
\* object is looked up and filled in place; the lookup raises DoesNotExist
\* when the target is gone, after the earlier objects have been yielded
RECURSIVE manager_iter_from(_, _)
manager_iter_from(cells, i) ==
    IF i > Len(cells)
    THEN [objects |-> cells, out |-> <<>>, lookups |-> <<>>, raised |-> ""]
    ELSE IF cells[i].obj = None /\ ~Exists(cells[i].pk)
    THEN [objects |-> cells, out |-> <<>>, lookups |-> <<cells[i].pk>>,
          raised |-> "DoesNotExist"]
    ELSE LET missed == cells[i].obj = None
             loaded == IF missed THEN Cell(cells[i].pk, get(cells[i].pk))
                       ELSE cells[i]
             rest == manager_iter_from([cells EXCEPT ![i] = loaded], i + 1)
         IN  [objects |-> rest.objects,
              out |-> <<loaded.obj>> \o rest.out,
              lookups |-> (IF missed THEN <<cells[i].pk>> ELSE <<>>) \o rest.lookups,
              raised |-> rest.raised]

\* a slip: the object that was looked up is yielded but not kept
manager_iter_forgetful(self_objects) ==
    [manager_iter_from(self_objects, 1) EXCEPT !.objects = self_objects]

manager_iter(self_objects) == manager_iter_from(self_objects, 1)

\* count() and __len__ of the query set
count(qs_objects) == Len(qs_objects)

\* __getitem__: self.objects[key], an IndexError out of range, else _get_obj
getitem(qs_objects, key) ==
    IF key \notin DOMAIN qs_objects
    THEN [objects |-> qs_objects, ret |-> None, raised |-> "IndexError"]
    ELSE LET g == get_obj(qs_objects[key])
         IN  [objects |-> [qs_objects EXCEPT ![key] = g.obj], ret |-> g.ret,
              raised |-> ""]

\* iterating the MongoDBM2MValuesListQuerySet that all() of a query set
\* returns: _clone gives it the cells and no flat nor _fields, so iterator()
\* raises AttributeError at the first cell that resolves
RECURSIVE values_list_iter_from(_, _)
values_list_iter_from(cells, i) ==
    IF i > Len(cells)
    THEN [objects |-> cells, out |-> <<>>, raised |-> ""]
    ELSE LET g == get_obj(cells[i])
             filled == [cells EXCEPT ![i] = g.obj]
         IN  IF g.ret = None THEN values_list_iter_from(filled, i + 1)
             ELSE [objects |-> filled, out |-> <<>>, raised |-> "AttributeError"]

\* x in manager
Contains(x) ==
    /\ last = Idle
    /\ last' = Call("contains", <<x>>, FALSE, objects, <<>>, "",
                    <<Bool(contains(objects, x))>>)
    /\ UNCHANGED <<other, db, embed, objects, stored>>

\* list(manager), as far as the iteration gets
Iterate ==
    /\ last = Idle
    /\ \E r \in {manager_iter(objects)} :
           /\ objects' = r.objects
           /\ last' = Call("iter", <<>>, FALSE, objects, <<>>, r.raised,
                           <<[k |-> "iteration", yielded |-> r.out,
                              lookups |-> r.lookups]>>)
    /\ UNCHANGED <<other, db, embed, stored>>

\* manager.all(use_cached=...).count()
Count(use_cached) ==
    /\ last = Idle
    /\ last' = Call("count", <<Bool(use_cached)>>, FALSE, objects, <<>>, "",
                    <<Num(count(MongoDBM2MQuerySet(objects, use_cached)))>>)
    /\ UNCHANGED <<other, db, embed, objects, stored>>

\* manager.all(use_cached=...)[key - 1]
GetItem(use_cached, key) ==
    /\ last = Idle
    /\ \E r \in {getitem(MongoDBM2MQuerySet(objects, use_cached), key)} :
           /\ objects' = IF use_cached THEN r.objects ELSE objects
           /\ last' = Call("getitem", <<Bool(use_cached), Num(key)>>, FALSE,
                           objects, <<>>, r.raised, <<r.ret>>)
    /\ UNCHANGED <<other, db, embed, stored>>

\* list(manager.all(use_cached=...).all())
QsAllIter(use_cached) ==
    /\ last = Idle
    /\ \E r \in {values_list_iter_from(
                     qs_clone(MongoDBM2MQuerySet(objects, use_cached),
                              use_cached).result, 1)} :
           /\ objects' = IF use_cached THEN r.objects ELSE objects
           /\ last' = Call("qs_all_iter", <<Bool(use_cached)>>, FALSE, objects,
                           <<>>, r.raised, r.out)
    /\ UNCHANGED <<other, db, embed, stored>>

\* what is asked of "in": identifiers, their strings, target instances,
\* and a document that was never saved
Askable == Items \cup {Model(None, n) : n \in Names}

NextReads ==
    \/ Return
    \/ last = Idle /\ \E values \in SeqsUpTo(Shapes, MaxStored) : Set(values)
    \/ last = Idle /\ \E t \in TargetIds : DeleteTarget(t)
    \/ last = Idle /\ \E use_cached \in BOOLEAN : All(use_cached)
    \/ last = Idle /\ \E x \in Askable : Contains(x)
    \/ last = Idle /\ Iterate
    \/ last = Idle /\ \E use_cached \in BOOLEAN : Count(use_cached)
    \/ last = Idle /\ \E use_cached \in BOOLEAN, key \in 1..MaxCells :
           GetItem(use_cached, key)
    \/ last = Idle /\ \E use_cached \in BOOLEAN : QsAllIter(use_cached)

SpecReads == Init /\ [][NextReads]_vars

----------------------------------------------------------------------------
(* A second host instance in memory: a new, unsaved host, or the stored    *)
(* host document loaded by another session.                                *)

\* MongoDBM2MRelatedManager.__init__: self.objects = list(objects), a list
\* of its own with the given cells
manager_init(cells, list, model_instance) ==
    Manager(cells, model_instance, "own")

\* the cells in the list a manager holds
cells_of(o, manager) ==
    IF manager.list = "default" THEN o.default ELSE manager.objects

\* __call__: the default value of the field for a new instance
call(o) == manager_init(o.default, "default", FALSE)

\* _with_model_instance: a copy of the manager, bound to the instance
with_model_instance(o, manager) ==
    manager_init(cells_of(o, manager), manager.list, TRUE)

\* a slip: the bound copy is returned but not stored in the instance
descriptor_get_unstored(o) ==
    [other |-> o,
     manager |-> IF o.manager.bound THEN o.manager
                 ELSE with_model_instance(o, o.manager)]

\* the descriptor's __get__ on the second instance: the manager in its
\* __dict__, replaced there by a bound copy when it is not bound
descriptor_get(o) ==
    LET manager == IF o.manager.bound THEN o.manager
                   ELSE with_model_instance(o, o.manager)
    IN  [other |-> [o EXCEPT !.manager = manager], manager |-> manager]

\* What a change of g.manager's cells leaves.  An append or a cell filled
\* in place changes the list the manager holds; a rebinding of self.objects
\* gives the manager a new list.  The change shows in the instance when
\* g.manager is the manager stored in it.
written(g, cells, in_place) ==
    IF in_place /\ g.manager.list = "default"
    THEN [g.other EXCEPT !.default = cells]
    ELSE IF g.other.manager.bound
    THEN [g.other EXCEPT !.manager = Manager(cells, TRUE, "own")]
    ELSE g.other

\* the end of a call on the second instance's manager: if auto_save, the
\* instance is saved, and its pre_save reads the field again
other_finish(o, auto_save) ==
    LET g == descriptor_get(o)
        f == finish(cells_of(g.other, g.manager), auto_save)
    IN  [other |-> IF auto_save THEN written(g, f.objects, TRUE) ELSE o,
         stored |-> f.stored, raised |-> f.raised]

\* Host(): the field's default value is set on the new instance
OtherNew ==
    /\ last = Idle
    /\ other' = [other EXCEPT !.doc = "new", !.manager = call(other)]
    /\ last' = Call("other_new", <<>>, FALSE, <<>>, <<>>, "", <<>>)
    /\ UNCHANGED <<db, embed, objects, stored>>

\* another session's Host.objects.get(pk=host.pk): the stored list is
\* decoded into a manager that is not bound yet
OtherLoad(form) ==
    /\ last = Idle
    /\ other' = [other EXCEPT
                    !.doc = "stored",
                    !.manager = manager_init(to_python(delivered(stored, form)),
                                             "own", FALSE)]
    /\ last' = Call("other_load", <<form>>, FALSE, <<>>, <<>>, "", <<>>)
    /\ UNCHANGED <<db, embed, objects, stored>>

\* instance.field: the manager the descriptor returns, its cells and
\* whether it is bound
OtherAccess ==
    /\ last = Idle
    /\ other.doc # "none"
    /\ \E g \in {descriptor_get(other)} :
           /\ other' = g.other
           /\ last' = Call("other_access", <<>>, FALSE,
                           cells_of(other, other.manager), <<>>, "",
                           <<cells_of(g.other, g.manager), Bool(g.manager.bound)>>)
    /\ UNCHANGED <<db, embed, objects, stored>>

\* instance.field.add / remove / clear on the second instance; out is the
\* stored list as it was before the call
OtherMutate(op, objs, auto_save) ==
    /\ last = Idle
    /\ other.doc # "none"
    /\ auto_save => other.doc = "stored"
    /\ \E g \in {descriptor_get(other)} :
         \E r \in {CASE op = "other_add" -> add(cells_of(g.other, g.manager), objs)
                     [] op = "other_remove" ->
                            remove(cells_of(g.other, g.manager), objs)
                     [] op = "other_clear" -> clear(cells_of(g.other, g.manager))} :
         \E f \in {other_finish(written(g, r.objects, op = "other_add"), auto_save)} :
           /\ Len(r.objects) <= MaxCells
           /\ other' = f.other
           /\ stored' = f.stored
           /\ last' = Call(op, objs, auto_save, cells_of(other, other.manager),
                           r.events, f.raised, stored)
    /\ UNCHANGED <<db, embed, objects>>

\* instance.save() in the other session
OtherSave ==
    /\ last = Idle
    /\ other.doc = "stored"
    /\ \E f \in {other_finish(other, TRUE)} :
           /\ other' = f.other
           /\ stored' = f.stored
           /\ last' = Call("other_save", <<>>, TRUE,
                           cells_of(other, other.manager), <<>>, f.raised, stored)
    /\ UNCHANGED <<db, embed, objects>>

NextSessions ==
    \/ Return
    \/ last = Idle /\ \E form \in FormsOf(embed) : Load(form)
    \/ last = Idle /\ \E x \in Items, auto_save \in BOOLEAN : Add(<<x>>, auto_save)
    \/ last = Idle /\ \E x \in Items, auto_save \in BOOLEAN : Remove(<<x>>, auto_save)
    \/ last = Idle /\ \E auto_save \in BOOLEAN : Clear(auto_save)
    \/ last = Idle /\ Save
    \/ last = Idle /\ OtherNew
    \/ last = Idle /\ \E form \in FormsOf(embed) : OtherLoad(form)
    \/ last = Idle /\ OtherAccess
    \/ last = Idle /\ \E x \in Items, auto_save \in BOOLEAN :
           OtherMutate("other_add", <<x>>, auto_save)
    \/ last = Idle /\ \E x \in Items, auto_save \in BOOLEAN :
           OtherMutate("other_remove", <<x>>, auto_save)
    \/ last = Idle /\ \E auto_save \in BOOLEAN :
           OtherMutate("other_clear", <<>>, auto_save)
    \/ last = Idle /\ OtherSave

SpecSessions == Init /\ [][NextSessions]_vars

----------------------------------------------------------------------------
(* Properties.                                                             *)

Pre(op) == CASE op = "add" -> "pre_add" [] op = "remove" -> "pre_remove"
             [] op = "clear" -> "pre_clear" [] OTHER -> ""
Post(op) == CASE op = "add" -> "post_add" [] op = "remove" -> "post_remove"
              [] op = "clear" -> "post_clear" [] OTHER -> ""

\* the cells of after are those of before, except that a cell without an
\* object may have got one (the save of an embedding field loads it)
SameCells(before, after) ==
    /\ pks(after) = pks(before)
    /\ \A i \in DOMAIN before : before[i].obj # None => after[i] = before[i]

\* C1: a call of add, remove or clear sends exactly two signals, the
\* pre-signal and then the post-signal of the action, with the same pk_set;
\* the receiver of the pre-signal sees the cell list of before the call,
\* the receiver of the post-signal the cell list the call leaves.
SignalPairing ==
    last.op \in {"add", "remove", "clear"} =>
        /\ Len(last.events) = 2
        /\ last.events[1].action = Pre(last.op)
        /\ last.events[2].action = Post(last.op)
        /\ last.events[1].pk_set = last.events[2].pk_set
        /\ last.events[1].objects = last.before
        /\ SameCells(last.events[2].objects, objects)
        /\ (~(last.auto_save /\ embed) => last.events[2].objects = objects)

SignalPairingWitness ==
    /\ last.op = "remove"
    /\ Len(last.before) = 2
    /\ Len(objects) = 1
    /\ Len(last.events) = 2
    /\ last.events[1].pk_set # <<>>

\* C2: after add calls no two cells hold the same identifier, and count()
\* is the number of distinct identifiers added.
AddIdempotent ==
    last.op = "add" =>
        /\ \A i, j \in DOMAIN objects : objects[i].pk = objects[j].pk => i = j
        /\ Len(objects) =
              Cardinality(Range(pks(last.before))
                  \cup {add_cell(last.args[i]).pk : i \in DOMAIN last.args})

\* the identifier an argument of add or remove stands for
ItemId(x) == IF x.k = "Model" THEN ObjectId(x.pk) ELSE ObjectId(x)
Requested == {ItemId(last.args[i]) : i \in DOMAIN last.args}
Held == Range(pks(last.before))
InStorage(pk) == pk.v \in TargetIds /\ db[pk.v] # Absent
\* the stored targets among ids, in order, as storage has them now
StoredTargets(ids) ==
    LET there == SelectSeq(ids, InStorage)
    IN  [i \in DOMAIN there |-> Model(Str(there[i].v), db[there[i].v])]

\* C3: with embed, iterating all() yields the embedded copy of every cell,
\* also of a target deleted from storage; iterating all(use_cached=False)
\* or objs() yields exactly the held targets that are in storage, as
\* storage has them now.
CachedAndFreshReads ==
    embed =>
        /\ (last.op = "all" /\ \A i \in DOMAIN last.before : last.before[i].obj # None)
              => last.out = [i \in DOMAIN last.before |-> last.before[i].obj]
        /\ last.op \in {"all_fresh", "objs"}
              => last.out = StoredTargets(pks(last.before))

CachedAndFreshReadsWitness ==
    /\ embed
    /\ last.op = "all_fresh"
    /\ Len(stored) = 2
    /\ Len(last.before) = 2
    /\ last.before[1].obj # None /\ last.before[2].obj # None
    /\ ~InStorage(last.before[1].pk) /\ InStorage(last.before[2].pk)
    /\ Len(last.out) = 1

\* C4: after reload_from_db and a save, the host reloaded from storage
\* holds exactly the identifiers held before whose target is in storage,
\* and every copy it holds has the target's stored field values.
ReloadFromDbPersisted ==
    last.op = "reload_from_db" =>
        LET saved == IF last.auto_save THEN [raised |-> last.raised, stored |-> stored]
                     ELSE save(objects)
        IN  /\ saved.raised = ""
            /\ \A form \in FormsOf(embed) :
                 LET m == to_python(delivered(saved.stored, form)) IN
                 /\ pks(m) = SelectSeq(pks(last.before), InStorage)
                 /\ \A i \in DOMAIN m :
                      /\ embed => m[i].obj # None
                      /\ m[i].obj # None =>
                            /\ ObjectId(m[i].obj.pk) = m[i].pk
                            /\ m[i].obj.name = db[m[i].pk.v]

ReloadFromDbPersistedWitness ==
    /\ embed
    /\ last.op = "reload_from_db"
    /\ last.auto_save
    /\ Len(last.before) = 2
    /\ Len(stored) = 1
    /\ ~InStorage(last.before[1].pk)
    /\ last.before[2].obj # None
    /\ last.before[2].obj.name # db[last.before[2].pk.v]

RemoveExact ==
    last.op = "remove" =>
        /\ SameCells(SelectSeq(last.before, LAMBDA c : c.pk \notin Requested),
                     objects)
        /\ \A e \in 1..2 :
              Range(last.events[e].pk_set) = {str(pk) : pk \in Requested \cap Held}

RemoveExactWitness ==
    /\ last.op = "remove"
    /\ Requested \cap Held # {}
    /\ Requested \ Held # {}
    /\ Len(last.before) = 1
    /\ objects = <<>>
    /\ Len(last.events[1].pk_set) = 1

\* the held items, all given as ObjectIds, as strings, or as instances
ItemForms(cells) ==
    { [i \in DOMAIN cells |-> cells[i].pk],
      [i \in DOMAIN cells |-> str(cells[i].pk)],
      [i \in DOMAIN cells |-> IF cells[i].obj # None THEN cells[i].obj
                              ELSE Instance(cells[i].pk.v)] }

\* C7: clear leaves no cell and its two signals carry the identifiers held
\* before; adding the items that were held gives back the identifier set.
ClearThenAdd ==
    last.op = "clear" =>
        /\ objects = <<>>
        /\ \A e \in 1..2 :
              /\ Range(last.events[e].pk_set) = {str(pk) : pk \in Held}
              /\ Len(last.events[e].pk_set) = Len(last.before)
        /\ \A items \in ItemForms(last.before) :
              Range(pks(add(objects, items).objects)) = Held

ClearThenAddWitness ==
    /\ last.op = "clear"
    /\ Len(last.before) = 2
    /\ last.before[1].pk # last.before[2].pk
    /\ objects = <<>>

\* C8: the stored list decodes to the identifiers of the manager, in
\* order; without embed a stored element is the identifier alone, with
\* embed it has every field of the target and decodes to an object with
\* the field values of the encoded one; a host loaded from storage holds
\* the stored identifiers in the stored order.
EncodeDecodeRoundTrip ==
    /\ last.op = "load" =>
          pks(objects) = [i \in DOMAIN stored |-> ObjectId(stored[i].d.id)]
    /\ (last.raised = "" /\ (last.op = "save" \/ last.auto_save)) =>
          /\ \A form \in FormsOf(embed) :
                LET m == to_python(delivered(stored, form)) IN
                /\ pks(m) = pks(objects)
                /\ embed => \A i \in DOMAIN m :
                      /\ m[i].obj # None
                      /\ ObjectId(m[i].obj.pk) = ObjectId(objects[i].obj.pk)
                      /\ m[i].obj.name = objects[i].obj.name
          /\ \A i \in DOMAIN stored :
                /\ stored[i].k = "dict"
                /\ DOMAIN stored[i].d =
                      IF embed THEN Range(TargetFields) ELSE {"id"}

EncodeDecodeRoundTripWitness ==
    /\ embed
    /\ last.op = "save"
    /\ last.raised = ""
    /\ Len(objects) = 2
    /\ objects[1].pk # objects[2].pk
    /\ \E i \in 1..2 : last.before[i].obj = None

\* the identifier a raw element carries
ElementId(e) ==
    IF e.k \in {"ObjectId", "str"} THEN ObjectId(e)
    ELSE IF e.k = "dict" THEN ObjectId(e.d.id)
    ELSE ObjectId(e.values.d.id)
\* a raw element that carries nothing but the identifier
IdOnly(e) ==
    \/ e.k \in {"ObjectId", "str"}
    \/ e.k = "dict" /\ DOMAIN e.d = {"id"}
    \/ e.k = "tuple" /\ DOMAIN e.values.d = {"id"}

\* C9: decoding gives one cell per raw element, with the element's
\* identifier, and a cell without an object for an ObjectId, a string, a
\* dict with the primary key alone and a construction tuple whose field
\* values are an id alone, with and without embed.
DecodeShapes ==
    last.op = "set" =>
        /\ Len(objects) = Len(last.args)
        /\ \A i \in DOMAIN last.args :
              /\ objects[i].pk = ElementId(last.args[i])
              /\ IdOnly(last.args[i]) => objects[i].obj = None

\* some (field, value) child of q, at any depth, names another attribute
\* than pk
RECURSIVE NamesOther(_)
NamesOther(q) ==
    \E i \in DOMAIN q.children :
        IF q.children[i].k = "Q" THEN NamesOther(q.children[i])
        ELSE q.children[i].f # "pk"

\* C10: without embed, filter, exclude and get on the field raise
\* MongoDBM2MQueryError and run no query when a keyword argument or a
\* child at any depth of a Q names another attribute than pk.
NonPkRejected ==
    (/\ last.op \in {"filter", "exclude", "get"}
     /\ ~embed
     /\ \/ \E i \in DOMAIN last.args : NamesOther(last.args[i])
        \/ \E f \in last.out[1].kwargs : f # "pk")
        => /\ last.raised = "MongoDBM2MQueryError"
           /\ ~last.out[1].ran

\* the identifier of a row's target, None for a row without target
TargetPk(x) == IF x = None THEN None ELSE ObjectId(x.pk)
\* the magic key the i-th row of the last filter on the through model has
RowKey(i) ==
    Key(last.args[1].pk, IF last.args[1].k = "Host" THEN "f" ELSE "r",
        str(last.before[i].pk))
\* the identifiers in the stored list of host h
StoredIds(h) == {StoredOf(h)[j].d.id : j \in DOMAIN StoredOf(h)}

ThroughGetNeverNone ==
    last.op = "through_get" =>
        \/ last.raised = "DoesNotExist"
        \/ last.raised = "" /\ last.out[1] # None

\* C13: save of a relationship row (H, T) leaves T's identifier held
\* exactly once in H's list, unchanged if it was held, and H persisted;
\* delete of the row leaves T's identifier not held and H persisted.
ThroughSaveDelete ==
    last.op \in {"through_save", "through_delete"} =>
        LET T == ItemId(last.args[1])
            persisted == /\ last.raised = ""
                         /\ [i \in DOMAIN stored |-> stored[i].d.id] = pks(objects)
        IN  /\ last.op = "through_save" =>
                  /\ Cardinality({i \in DOMAIN objects : objects[i].pk = T}) = 1
                  /\ T \in Held => pks(objects) = pks(last.before)
                  /\ persisted
            /\ last.op = "through_delete" =>
                  /\ T \notin Range(pks(objects))
                  /\ persisted

\* the cells of the iterated query set that can be resolved: those with a
\* cached object, where the query set uses it, and those whose target is
\* in storage
Resolvable ==
    SelectSeq(last.before,
              LAMBDA c : \/ last.op \in {"all", "through_filter"} /\ c.obj # None
                         \/ InStorage(c.pk))

\* C14: iterating a query set raises nothing and yields one row for each
\* resolvable cell and none for a cell that has no cached object and whose
\* target is not in storage, in plain mode (the rows are targets) and as
\* the relationship model (the rows are relationship rows).
IterationSkipsMissing ==
    last.op \in {"all", "all_fresh", "objs", "through_filter"} =>
        /\ last.raised = ""
        /\ Len(last.out) = Len(Resolvable)
        /\ \A i \in DOMAIN last.out :
              IF last.op = "through_filter"
              THEN /\ last.out[i].target # None
                   /\ last.out[i].host # None
              ELSE ObjectId(last.out[i].pk) = Resolvable[i].pk

\* C15: filter, all and values_list on a query set return a new query set
\* and leave the cells of the receiver as they were before the call.
QuerySetMethodsKeepReceiver ==
    last.op \in {"qs_filter", "qs_all", "qs_values_list"} =>
        /\ Len(last.out) = 2
        /\ last.out[1] = last.before

\* C16: filter on a query set gives the receiver's cells, in order, whose
\* target is in storage and satisfies the predicate there, whatever the
\* cached copies say, also for the cached query set of an embedding field.
FilterAgainstStorage ==
    last.op = "qs_filter" =>
        last.out[2] =
            SelectSeq(last.before,
                      LAMBDA c : InStorage(c.pk) /\ db[c.pk.v] = last.args[1].v)

FilterAgainstStorageWitness ==
    /\ last.op = "qs_filter"
    /\ embed
    /\ Len(last.before) = 2
    /\ Len(last.out[2]) = 1
    /\ \E i \in 1..2 :
          /\ last.before[i].obj # None
          /\ last.before[i].obj.name = last.args[1].v
          /\ ~InStorage(last.before[i].pk)

\* C17: every cell has an identifier, and the cached object of a cell,
\* when it has one, has the cell's identifier.
CellsConsistent ==
    \A i \in DOMAIN objects :
        /\ objects[i].pk.k = "ObjectId"
        /\ objects[i].obj # None =>
              /\ objects[i].obj.k = "Model"
              /\ ObjectId(objects[i].obj.pk) = objects[i].pk

\* C18: create returns a new target d; the manager then holds one cell
\* more, the new cell has d's identifier and d as its cached object, and
\* d in manager is true.
CreateAddsDocument ==
    last.op = "create" =>
        LET d == last.out[1]
            n == Len(objects)
        IN  /\ n = Len(last.before) + 1
            /\ objects[n].obj = d
            /\ d.pk # None
            /\ objects[n].pk = ObjectId(d.pk)
            /\ last.out[2] = Bool(TRUE)

\* C19: iterating all(), all(use_cached=False) or objs() keeps the
\* manager's identifiers and the copies its cells hold; a save of the host
\* after the read stores what a save before the read would have stored,
\* and a host whose cells all held copies, or whose field does not embed,
\* is saved and reloaded with the same identifiers and the same copies,
\* also when a target has been deleted from storage.
ReadsKeepManager ==
    last.op \in {"all", "all_fresh", "objs"} =>
        LET s == save(objects)
            had == \A i \in DOMAIN last.before : last.before[i].obj # None
        IN  /\ SameCells(last.before, objects)
            /\ last.op # "all" => objects = last.before
            /\ s.raised = save(last.before).raised
            /\ s.stored = save(last.before).stored
            /\ (~embed \/ had) =>
                  /\ s.raised = ""
                  /\ \A form \in FormsOf(embed) :
                        LET m == to_python(delivered(s.stored, form)) IN
                        /\ pks(m) = pks(last.before)
                        /\ embed => \A i \in DOMAIN m :
                              /\ ObjectId(m[i].obj.pk) = last.before[i].pk
                              /\ m[i].obj.name = last.before[i].obj.name

ReadsKeepManagerWitness ==
    /\ last.op = "all"
    /\ embed
    /\ Len(last.before) = 2
    /\ Len(stored) = 2
    /\ \A i \in 1..2 : last.before[i].obj # None
    /\ ~InStorage(last.before[1].pk)
    /\ InStorage(last.before[2].pk)
    /\ last.before[2].obj.name # db[last.before[2].pk.v]

\* C20: all() of a target's reverse accessor returns exactly the hosts
\* whose stored list holds the target's identifier, in collection order,
\* with embed and without; what the observed host instance holds in
\* memory does not matter.
ReverseAllMatchesStored ==
    last.op = "reverse_all" =>
        LET holders == SelectSeq([h \in HostIds |-> h],
                           LAMBDA h : ItemId(last.args[1]) \in StoredIds(h))
        IN  last.out = [i \in DOMAIN holders |-> Host(holders[i])]

ReverseAllMatchesStoredWitness ==
    /\ last.op = "reverse_all"
    /\ Len(last.out) = NumHosts
    /\ Len(stored) = 2
    /\ ItemId(last.args[1]) = stored[2].d.id
    /\ ItemId(last.args[1]) # stored[1].d.id

\* C21: remove_nonexists leaves exactly the cells whose identifier is in
\* the target collection, in their order, each with the object it held; both
\* of its signals carry exactly the identifiers of the cells it removes;
\* when every held identifier exists no cell goes and the pk_set is empty.
RemoveNonexistsExact ==
    last.op = "remove_nonexists" =>
        LET kept == SelectSeq(last.before, LAMBDA c : InStorage(c.pk))
            gone == SelectSeq(last.before, LAMBDA c : ~InStorage(c.pk))
        IN  /\ SameCells(kept, objects)
            /\ ~(last.auto_save /\ embed) => objects = kept
            /\ Len(last.events) = 2
            /\ last.events[1].action = "pre_remove"
            /\ last.events[2].action = "post_remove"
            /\ \A e \in 1..2 :
                  last.events[e].pk_set = [i \in DOMAIN gone |-> str(gone[i].pk)]
            /\ last.events[1].objects = last.before
            /\ last.events[2].objects = kept
            /\ gone = <<>> =>
                  /\ pks(objects) = pks(last.before)
                  /\ last.events[1].pk_set = <<>>

RemoveNonexistsExactWitness ==
    /\ last.op = "remove_nonexists"
    /\ Len(last.before) = 2
    /\ ~InStorage(last.before[1].pk) /\ InStorage(last.before[2].pk)
    /\ last.before[1].obj # None
    /\ objects = <<last.before[2]>>
    /\ last.events[1].pk_set = <<str(last.before[1].pk)>>

\* C27: reload_from_db sends pre_clear, post_clear, pre_add and post_add in
\* this order; the clear signals carry every identifier held before the
\* call, the add signals exactly the held identifiers whose target is in
\* storage; the receivers of post_clear and pre_add see an empty cell list.
ReloadFromDbSignals ==
    last.op = "reload_from_db" =>
        LET held == pks(last.before)
            there == SelectSeq(held, InStorage)
        IN  /\ [i \in DOMAIN last.events |-> last.events[i].action]
                  = <<"pre_clear", "post_clear", "pre_add", "post_add">>
            /\ \A e \in 1..2 :
                  last.events[e].pk_set = [i \in DOMAIN held |-> str(held[i])]
            /\ \A e \in 3..4 :
                  last.events[e].pk_set = [i \in DOMAIN there |-> str(there[i])]
            /\ last.events[1].objects = last.before
            /\ last.events[2].objects = <<>>
            /\ last.events[3].objects = <<>>
            /\ pks(last.events[4].objects) = there
            /\ pks(objects) = there

ReloadFromDbSignalsWitness ==
    /\ last.op = "reload_from_db"
    /\ Len(last.before) = 2
    /\ InStorage(last.before[1].pk) /\ ~InStorage(last.before[2].pk)
    /\ Len(last.events) = 4
    /\ Len(last.events[1].pk_set) = 2
    /\ Len(last.events[3].pk_set) = 1
    /\ Len(objects) = 1

\* C25: the cell list keeps insertion order: add appends the identifiers
\* that were not held, in argument order; remove keeps the order of the
\* cells it leaves; a save stores the identifiers in cell order and a load
\* gives the cells in stored order; reading all() yields the targets in
\* cell order.
InsertionOrder ==
    LET args == [i \in DOMAIN last.args |-> ItemId(last.args[i])] IN
    /\ last.op = "add" =>
          pks(objects) = pks(last.before) \o SelectSeq(args, LAMBDA id : id \notin Held)
    /\ last.op = "remove" =>
          pks(objects) = SelectSeq(pks(last.before), LAMBDA id : id \notin Requested)
    /\ (last.raised = "" /\ (last.op = "save" \/ last.auto_save)) =>
          [i \in DOMAIN stored |-> ElementId(stored[i])] = pks(objects)
    /\ last.op = "load" =>
          /\ pks(objects) = [i \in DOMAIN stored |-> ElementId(stored[i])]
          /\ \A form \in FormsOf(embed) :
                pks(to_python(delivered(stored, form))) = pks(objects)
    /\ last.op \in {"all", "all_fresh", "objs"} =>
          [i \in DOMAIN last.out |-> ObjectId(last.out[i].pk)]
              = pks(SelectSeq(last.before,
                       LAMBDA c : \/ InStorage(c.pk)
                                  \/ last.op = "all" /\ c.obj # None))

\* a host saved with the targets 2 and 1, in this order, and loaded again
InsertionOrderWitness ==
    /\ last.op = "load"
    /\ pks(objects) = <<Oid(2), Oid(1)>>
    /\ Len(stored) = 2

MutatingOps == {"add", "remove", "clear", "remove_nonexists", "reload_from_db"}
\* the cell list the receiver of the call's last signal sees
Committed(made) == made.events[Len(made.events)].objects
\* a cell the save of an embedding field cannot encode
Unresolvable(cells) ==
    embed /\ \E i \in DOMAIN cells : cells[i].obj = None /\ ~InStorage(cells[i].pk)

MembershipById ==
    last.op = "contains" =>
        LET x == last.args[1]
            id == IF x.k = "Model" THEN x.pk ELSE x
        IN  last.out[1] =
               Bool(\E i \in DOMAIN last.before :
                       /\ id # None
                       /\ str(last.before[i].pk) = str(id))

\* a document is found through a cell whose cached copy differs from it
MembershipByIdWitness ==
    /\ last.op = "contains"
    /\ last.args[1].k = "Model"
    /\ last.out[1] = Bool(TRUE)
    /\ Len(last.before) = 2
    /\ \E i \in 1..2 : last.before[i].obj = None
    /\ \E i \in 1..2 :
          /\ last.before[i].obj # None
          /\ str(last.before[i].pk) = str(last.args[1].pk)
          /\ last.before[i].obj # last.args[1]

\* the target document a cell stands for: its object, else the stored target
TargetOf(c) ==
    IF c.obj # None THEN c.obj
    ELSE IF InStorage(c.pk) THEN Model(Str(c.pk.v), db[c.pk.v])
    ELSE None

CountIncludesDangling ==
    LET cached == last.op = "all" \/ (last.op = "getitem" /\ last.args[1].v)
        resolves(c) == (cached /\ c.obj # None) \/ InStorage(c.pk)
    IN  /\ last.op = "count" => last.out[1] = Num(Len(last.before))
        /\ last.op \in {"all", "all_fresh"} =>
              /\ Len(last.out) <= Len(last.before)
              /\ Len(last.out) = Len(last.before)
                    <=> \A i \in DOMAIN last.before : resolves(last.before[i])
        /\ (last.op = "getitem" /\ last.args[2].v \in DOMAIN last.before) =>
              /\ last.raised = ""
              /\ last.out[1] = None <=> ~resolves(last.before[last.args[2].v])

CountIncludesDanglingWitness ==
    /\ last.op = "getitem"
    /\ last.args[1].v
    /\ Len(last.before) = 2
    /\ last.args[2].v = 2
    /\ last.before[1].obj # None /\ ~InStorage(last.before[1].pk)
    /\ last.before[2].obj = None /\ ~InStorage(last.before[2].pk)
    /\ last.out[1] = None
    /\ last.raised = ""

\* C29: all() of a query set obtained from a manager gives a query set that
\* iterates without error and yields the documents the receiver yields, in
\* the same order.
QuerySetAllIterates ==
    last.op = "qs_all_iter" =>
        /\ last.raised = ""
        /\ last.out = iter(MongoDBM2MQuerySet(last.before, last.args[1].v)).out

\* the identifiers add appends to the cells of before for the arguments
Appended(before, args) ==
    SelectSeq([i \in DOMAIN args |-> ItemId(args[i])],
              LAMBDA id : id \notin Range(pks(before)))

\* C22: when two sessions have loaded the stored host document and each
\* adds a target and saves, each save succeeds and replaces the stored
\* list by the saving session's own list, the one it loaded plus what it
\* added: what the other session stored in between is not merged in.
LostUpdate ==
    (last.op \in {"add", "other_add"} /\ last.auto_save) =>
        LET mine == IF last.op = "add" THEN objects ELSE other.manager.objects
        IN  /\ last.raised = ""
            /\ pks(mine) = pks(last.before) \o Appended(last.before, last.args)
            /\ [i \in DOMAIN stored |-> ElementId(stored[i])] = pks(mine)

\* the other session loaded the empty list; the observed session added
\* target 1 and saved; the other session adds target 2 and saves
LostUpdateWitness ==
    /\ last.op = "other_add"
    /\ last.auto_save
    /\ last.raised = ""
    /\ last.before = <<>>
    /\ pks(objects) = <<Oid(1)>>
    /\ [i \in DOMAIN last.out |-> ElementId(last.out[i])] = <<Oid(1)>>
    /\ [i \in DOMAIN stored |-> ElementId(stored[i])] = <<Oid(2)>>

OtherMutations == {"other_add", "other_remove", "other_clear"}

\* C28: a mutation through the manager of one host instance changes neither
\* the cells of the other instance's manager nor those of the field's
\* default manager; the manager a field access returns is bound to the
\* instance, is the one later accesses return, and holds the mutations
\* made so far.
InstanceIsolation ==
    /\ [](/\ other.default = <<>>
          /\ last.op \in OtherMutations \cup {"other_access"} =>
                /\ other.manager.bound
                /\ other.manager.list = "own"
          /\ last.op = "other_access" =>
                /\ last.out = <<last.before, Bool(TRUE)>>
                /\ other.manager.objects = last.before
          /\ last.op = "other_add" =>
                pks(other.manager.objects)
                    = pks(last.before) \o Appended(last.before, last.args)
          /\ last.op = "other_remove" =>
                pks(other.manager.objects)
                    = SelectSeq(pks(last.before), LAMBDA id : id \notin Requested)
          /\ last.op = "other_clear" => other.manager.objects = <<>>)
    /\ [][/\ last'.op \in {"add", "remove", "clear"} => other' = other
          /\ last'.op \in OtherMutations => objects' = objects]_vars

InstanceIsolationWitness ==
    /\ last.op = "other_add"
    /\ other.doc = "new"
    /\ other.default = <<>>
    /\ pks(other.manager.objects) = <<Oid(2)>>
    /\ pks(objects) = <<Oid(1)>>

====
